---- MODULE Spec2Model ----
(***************************************************************************)
(* Live transcription pipeline of VideoSum.                                *)
(*                                                                         *)
(*   services/geminiService  LiveTranscriber (connect / start / stop),     *)
(*                           the session callbacks and the audio callback  *)
(*   components/VideoUploader  startLiveRecording, stopLiveRecording,      *)
(*                           toggleLivePlayback and the cleanup effects    *)
(*   App                     handleLiveUpdate / handleLiveStart and the    *)
(*                           handlers that replace the current video       *)
(*                                                                         *)
(* Every start handler constructs one LiveTranscriber; the model numbers   *)
(* them 1..MaxAttempts in construction order.  The browser is single-      *)
(* threaded: a handler runs to its next await, promise reactions           *)
(* (sessionPromise.then) run as microtasks before the next task.           *)
(***************************************************************************)
EXTENDS Integers, Sequences, FiniteSets, TLC

\* Bounds of the model.
MaxAttempts == 2    \* LiveTranscriber objects constructed
MaxFrags == 2       \* fragments appended since the last reset
MaxStops == 2       \* direct stop() calls of the API harness
MaxQueued == 2      \* reactions waiting on a pending sessionPromise
MaxFrames == 2      \* frames queued for sending, all processors together

MaxSamples == 2     \* length of the sample buffer given to createBlob
MaxRequests == 2    \* generateVideoSummary calls made by the App handlers
MaxSaves == 2       \* direct saveToHistory calls of the history harness

Attempts == 1..MaxAttempts

\* inputTranscription.text of an inbound message that carries the field.
MsgTexts == {"", "The quick", "brown fox"}

\* An inbound message: <<>> without serverContent.inputTranscription.text,
\* <<text>> with it.
Messages == {<<>>} \cup {<<x>> : x \in MsgTexts}

VARIABLES
    \* ---- App
    liveText,           \* useState liveText
    currentVideo,       \* useState video: "none" | "localVideo" | "localAudio" |
                        \* "remote" (fetched URL) | "restored" (history item)
    \* ---- VideoUploader
    mounted,            \* the component is mounted
    isRecording,        \* useState isRecording
    isLivePlayback,     \* useState isLivePlayback
    error,              \* useState error
    transcriberRef,     \* transcriberRef.current: 0 (null) or a transcriber
    mediaRecorderRef,   \* mediaRecorderRef.current: 0 (null) or the recorder of an attempt
    \* ---- one start handler invocation and the objects it owns
    kind,               \* "none" | "mic" | "playback" | "api"
    pc,                 \* position / outcome of the async handler
    stream,             \* MediaStream of the attempt: "none" | "live" | "stopped"
    recorder,           \* MediaRecorder + FileReader of the attempt
    timer,              \* the one-second interval of the attempt:
                        \* "none" | "running" | "cleared"
    \* ---- LiveTranscriber fields
    sessionPromise,     \* this.sessionPromise: "null" | "set"
    scriptProcessor,    \* this.scriptProcessor # null (node connected)
    inputAudioContext,  \* this.inputAudioContext # null (context open)
    onaudioprocess,     \* a ScriptProcessorNode with the handler attached exists
    \* ---- remote session behind sessionPromise
    session,            \* "Idle" | "Connecting" | "Open" | "Errored" | "Closed"
    opened,             \* the promise was fulfilled (handshake succeeded)
    \* ---- event loop
    microtasks,         \* queued promise reactions <<t, "send" | "close", frame>>
    \* ---- observation (history) variables
    delivered,          \* onUpdate arguments since the last reset of liveText
    captured,           \* frames onaudioprocess encoded while a sessionPromise was held
    sendLog,            \* frames passed to sendRealtimeInput, in call order
    sentIn,             \* session states in which sendRealtimeInput was called
    closeCalls,         \* session.close() calls made by stop()
    stopCalls,          \* stop() calls, per transcriber
    connectCalls,       \* ai.live.connect calls, per transcriber
    exited,             \* an exit event happened and no capture was started since
    \* ---- the encoder and the onmessage test applied to one input
    data,               \* Float32Array given to createBlob, in units of 1/SampleUnit
    blob,               \* what createBlob returned for it, <<>> before the call
    message,            \* inbound LiveServerMessage given to onmessage
    updates,            \* <<the onUpdate calls it caused>>, <<>> before the call
    \* ---- App: analysis and history
    videoId,            \* video?.id of useState video, 0 for null
    currentVideoIdRef,  \* currentVideoIdRef.current, 0 for null
    analysis,           \* useState analysis: [isLoading, error, result]
    requests,           \* the generateVideoSummary calls made, in call order
    history,            \* useState history, newest first
    stored,             \* localStorage 'videosumm_history': <<>> (no key) or <<text>>
    uuids,              \* crypto.randomUUID() calls made
    \* ---- VideoUploader: the link tab
    urlInput,           \* useState urlInput
    isProcessingUrl,    \* useState isProcessingUrl
    urlPc,              \* what the handleUrlSubmit call in flight awaits, or "idle"
    fetched,            \* the Blob of the download: [type, tooLarge], NoBlob before
    selections,         \* onVideoSelected calls made by the latest handleUrlSubmit
    \* ---- generateVideoSummary applied to one input
    video,              \* the VideoData argument: [base64Data, mimeType, url]
    mode,               \* the SummaryMode argument
    tier,               \* the ProcessingTier argument
    request,            \* <<the generateContent request issued>>, <<>> before
    response,           \* what generateContent settled with, NoResponse before
    promise             \* the promise returned: [state, value], NoPromise before the call

appVars == <<liveText, currentVideo, delivered>>
uiVars == <<mounted, isRecording, isLivePlayback, error, transcriberRef, mediaRecorderRef>>
attemptVars == <<kind, pc, stream, recorder, timer>>
ltVars == <<sessionPromise, scriptProcessor, inputAudioContext, onaudioprocess, stopCalls,
            connectCalls>>
sessVars == <<session, opened>>
obsVars == <<sentIn, closeCalls, exited>>
frameVars == <<captured, sendLog>>
unitVars == <<data, blob, message, updates>>
genVars == <<videoId, currentVideoIdRef, analysis, requests, history, stored, uuids>>
urlVars == <<urlInput, isProcessingUrl, urlPc, fetched, selections>>
sumVars == <<video, mode, tier, request, response, promise>>
vars == <<appVars, uiVars, attemptVars, ltVars, sessVars, microtasks, obsVars,
          frameVars, unitVars, genVars, urlVars, sumVars>>

----------------------------------------------------------------------------
\* Event loop

\* Settlement of the promise ai.live.connect returned for transcriber t.
PromiseState(t) ==
    IF opened[t] THEN "fulfilled"
    ELSE IF session[t] = "Connecting" THEN "pending"
    ELSE IF session[t] = "Errored" THEN "rejected"
    ELSE "none"

\* Variant: a reaction runs at once, whatever the state of the promise.
Runnable_AtOnce(job) == TRUE

\* A reaction registered with sessionPromise.then runs once the promise is
\* fulfilled; on a rejected promise it never runs.
Runnable(job) == PromiseState(job[1]) = "fulfilled"

\* sessionPromise.then(reaction); the reaction closes over `frame` (the
\* pcmBlob of a send, 0 for a close).
Then(t, op, frame) ==
    IF sessionPromise[t] = "set" /\ PromiseState(t) # "rejected"
    THEN Append(microtasks, <<t, op, frame>>)
    ELSE microtasks

RunnableIdx == {i \in 1..Len(microtasks) : Runnable(microtasks[i])}

\* A task (event handler, timer, I/O callback) starts only when no microtask
\* is runnable.
TaskTurn == RunnableIdx = {}

RemoveAt(s, i) == SubSeq(s, 1, i - 1) \o SubSeq(s, i + 1, Len(s))

----------------------------------------------------------------------------
\* App: transcript accumulator

\* setState of an unmounted component is ignored.
SetState(cur, new) == IF mounted THEN new ELSE cur

\* Variant: the separator is added unconditionally.
handleLiveUpdate_AlwaysSpace(prev, text) == prev \o " " \o text

handleLiveUpdate(prev, text) == prev \o (IF prev # "" THEN " " ELSE "") \o text

\* handleLiveStart, and every other setLiveText('').
ResetLiveText ==
    /\ liveText' = SetState(liveText, "")
    /\ delivered' = <<>>

\* Variant: the test is for the presence of the field only.
HasInputTranscription_Present(text) == TRUE

\* The onmessage test: the field is present and non-empty.
HasInputTranscription(text) == text # ""

\* The body of callbacks.onmessage as the sequence of this.onUpdate calls it
\* makes for one message.
onmessage(msg) ==
    IF msg # <<>> /\ HasInputTranscription(msg[1]) THEN <<msg[1]>> ELSE <<>>

\* Variant: the update is computed from the text of the render in which the
\* callback was created (the empty transcript of the capture start).
OnUpdate_StaleText(text) ==
    /\ liveText' = SetState(liveText, handleLiveUpdate("", text))
    /\ delivered' = Append(delivered, text)

\* this.onUpdate(text) -> handleLiveUpdate -> setLiveText(prev => ...)
OnUpdate(text) ==
    /\ liveText' = SetState(liveText, handleLiveUpdate(liveText, text))
    /\ delivered' = Append(delivered, text)

----------------------------------------------------------------------------
\* Audio frame encoder.  A Float32 sample s is held as the integer
\* s * SampleUnit, so that s * 32768 is a multiple of 1/4.

Int16Scale == 32768
SampleUnit == 4 * Int16Scale

\* One 16-bit step in sample units: s * 32768 = (s * SampleUnit) / Quantum.
Quantum == SampleUnit \div Int16Scale

\* Number -> integer of the typed-array store: the fraction is dropped
\* (toward zero).
Truncate(num, den) ==
    IF num >= 0 THEN num \div den ELSE -((-num) \div den)

\* Variant: the store saturates at the limits of the 16-bit range.
ToInt16_Saturating(k) ==
    IF k > 32767 THEN 32767 ELSE IF k < -32768 THEN -32768 ELSE k

\* Integer -> Int16 of the typed-array store: modulo 2^16 into
\* -32768..32767.
ToInt16(k) ==
    LET m == k % 65536 IN IF m >= 32768 THEN m - 65536 ELSE m

\* int16[i] = data[i] * 32768
Int16Of(data_) ==
    [i \in 1..Len(data_) |-> ToInt16(Truncate(data_[i], Quantum))]

\* new Uint8Array(int16.buffer): two bytes per sample, low byte first.
BytesOf(int16) ==
    [j \in 1..(2 * Len(int16)) |->
        LET u == int16[(j + 1) \div 2] % 65536
        IN  IF j % 2 = 1 THEN u % 256 ELSE u \div 256]

B64Chars ==
    << "A", "B", "C", "D", "E", "F", "G", "H", "I", "J", "K", "L", "M",
       "N", "O", "P", "Q", "R", "S", "T", "U", "V", "W", "X", "Y", "Z",
       "a", "b", "c", "d", "e", "f", "g", "h", "i", "j", "k", "l", "m",
       "n", "o", "p", "q", "r", "s", "t", "u", "v", "w", "x", "y", "z",
       "0", "1", "2", "3", "4", "5", "6", "7", "8", "9", "+", "/" >>

RECURSIVE btoa(_)
\* btoa of the binary string with char codes `bytes`, as a sequence of
\* characters.
btoa(bytes) ==
    IF Len(bytes) = 0 THEN <<>>
    ELSE IF Len(bytes) = 1 THEN
        << B64Chars[(bytes[1] \div 4) + 1],
           B64Chars[(bytes[1] % 4) * 16 + 1], "=", "=" >>
    ELSE IF Len(bytes) = 2 THEN
        << B64Chars[(bytes[1] \div 4) + 1],
           B64Chars[(bytes[1] % 4) * 16 + (bytes[2] \div 16) + 1],
           B64Chars[(bytes[2] % 16) * 4 + 1], "=" >>
    ELSE
        << B64Chars[(bytes[1] \div 4) + 1],
           B64Chars[(bytes[1] % 4) * 16 + (bytes[2] \div 16) + 1],
           B64Chars[(bytes[2] % 16) * 4 + (bytes[3] \div 64) + 1],
           B64Chars[(bytes[3] % 64) + 1] >>
        \o btoa(SubSeq(bytes, 4, Len(bytes)))

\* encode(bytes): String.fromCharCode of every byte, then btoa.
encode(bytes) == btoa(bytes)

MimeType == "audio/pcm;rate=16000"

\* createBlob(data) = {data: encode(...), mimeType}, as <<data, mimeType>>.
createBlob(data_) == <<encode(BytesOf(Int16Of(data_))), MimeType>>

----------------------------------------------------------------------------
\* LiveTranscriber

\* connect(): this.sessionPromise = ai.live.connect(...); await it.
LTConnect(t) ==
    /\ sessionPromise' = [sessionPromise EXCEPT ![t] = "set"]
    /\ session' = [session EXCEPT ![t] = "Connecting"]
    /\ connectCalls' = [connectCalls EXCEPT ![t] = @ + 1]
    /\ UNCHANGED <<scriptProcessor, inputAudioContext, onaudioprocess, stopCalls,
                   opened, microtasks>>

\* start(stream): create the context and the processor, attach the handler.
LTStart(t) ==
    /\ inputAudioContext' = [inputAudioContext EXCEPT ![t] = TRUE]
    /\ scriptProcessor' = [scriptProcessor EXCEPT ![t] = TRUE]
    /\ onaudioprocess' = [onaudioprocess EXCEPT ![t] = TRUE]
    /\ UNCHANGED <<sessionPromise, stopCalls, connectCalls, microtasks>>

\* Variant: stop() that keeps this.sessionPromise.
LTStop_KeepPromise(t) ==
    /\ scriptProcessor' = [scriptProcessor EXCEPT ![t] = FALSE]
    /\ inputAudioContext' = [inputAudioContext EXCEPT ![t] = FALSE]
    /\ sessionPromise' = sessionPromise
    /\ microtasks' = Then(t, "close", 0)
    /\ stopCalls' = [stopCalls EXCEPT ![t] = @ + 1]
    /\ UNCHANGED <<onaudioprocess, connectCalls>>

\* stop(): disconnect the processor, close the context, defer session.close().
LTStop(t) ==
    /\ scriptProcessor' = [scriptProcessor EXCEPT ![t] = FALSE]
    /\ inputAudioContext' = [inputAudioContext EXCEPT ![t] = FALSE]
    /\ sessionPromise' = [sessionPromise EXCEPT ![t] = "null"]
    /\ microtasks' = Then(t, "close", 0)
    /\ stopCalls' = [stopCalls EXCEPT ![t] = @ + 1]
    /\ UNCHANGED <<onaudioprocess, connectCalls>>

\* if (transcriberRef.current) transcriberRef.current.stop()
StopRef ==
    IF transcriberRef # 0
    THEN LTStop(transcriberRef)
    ELSE UNCHANGED <<ltVars, microtasks>>

\* scriptProcessor.onaudioprocess: encode the frame and, when a session
\* promise is held, defer session.sendRealtimeInput to its fulfilment.
OnAudioProcess(t) ==
    IF sessionPromise[t] = "set"
    THEN /\ captured' = [captured EXCEPT ![t] = @ + 1]
         /\ microtasks' = Then(t, "send", captured[t] + 1)
    ELSE UNCHANGED <<captured, microtasks>>

\* The reactions: session => session.sendRealtimeInput({media}) and
\* session => session.close().
RunReaction(job) ==
    LET t == job[1] IN
    IF job[2] = "send"
    THEN /\ sentIn' = sentIn \cup {session[t]}
         /\ sendLog' = [sendLog EXCEPT ![t] = Append(@, job[3])]
         /\ UNCHANGED <<closeCalls, session>>
    ELSE /\ closeCalls' = [closeCalls EXCEPT ![t] = @ + 1]
         /\ session' = [session EXCEPT ![t] = "Closed"]
         /\ UNCHANGED <<sentIn, sendLog>>

----------------------------------------------------------------------------
\* App before any video was selected: no analysis, no request, no history.
NoAnalysis == [isLoading |-> FALSE, error |-> FALSE, result |-> 0]

GenIdle ==
    /\ videoId = 0
    /\ currentVideoIdRef = 0
    /\ analysis = NoAnalysis
    /\ requests = <<>>
    /\ history = <<>>
    /\ stored = <<>>
    /\ uuids = 0

\* The link tab before any submit.
NoBlob == [type |-> "none", tooLarge |-> FALSE]

UrlIdle ==
    /\ urlInput = ""
    /\ isProcessingUrl = FALSE
    /\ urlPc = "idle"
    /\ fetched = NoBlob
    /\ selections = 0

\* No summary requested.
NoVideo == [base64Data |-> "undefined", mimeType |-> "undefined", url |-> "undefined"]

NoResponse == [thrown |-> FALSE, isError |-> FALSE, text |-> "undefined",
               message |-> "undefined"]

NoPromise == [state |-> "none", isError |-> FALSE, value |-> "undefined"]

SumIdle ==
    /\ video = NoVideo
    /\ mode = "Overview"
    /\ tier = "Standard (Flash)"
    /\ request = <<>>
    /\ response = NoResponse
    /\ promise = NoPromise

Init ==
    /\ liveText = ""
    /\ currentVideo = "none"
    /\ delivered = <<>>
    /\ mounted = TRUE
    /\ isRecording = FALSE
    /\ isLivePlayback = FALSE
    /\ error = "null"
    /\ transcriberRef = 0
    /\ mediaRecorderRef = 0
    /\ kind = [a \in Attempts |-> "none"]
    /\ pc = [a \in Attempts |-> "idle"]
    /\ stream = [a \in Attempts |-> "none"]
    /\ recorder = [a \in Attempts |-> "none"]
    /\ timer = [a \in Attempts |-> "none"]
    /\ sessionPromise = [a \in Attempts |-> "null"]
    /\ scriptProcessor = [a \in Attempts |-> FALSE]
    /\ inputAudioContext = [a \in Attempts |-> FALSE]
    /\ onaudioprocess = [a \in Attempts |-> FALSE]
    /\ session = [a \in Attempts |-> "Idle"]
    /\ opened = [a \in Attempts |-> FALSE]
    /\ microtasks = <<>>
    /\ sentIn = {}
    /\ closeCalls = [a \in Attempts |-> 0]
    /\ stopCalls = [a \in Attempts |-> 0]
    /\ connectCalls = [a \in Attempts |-> 0]
    /\ exited = FALSE
    /\ captured = [a \in Attempts |-> 0]
    /\ sendLog = [a \in Attempts |-> <<>>]
    /\ data = <<>>
    /\ blob = <<>>
    /\ message = <<>>
    /\ updates = <<>>
    /\ GenIdle
    /\ UrlIdle
    /\ SumIdle

----------------------------------------------------------------------------
\* VideoUploader: live capture handlers

\* new LiveTranscriber(onLiveUpdate): the next unused transcriber.
NewAttempt(a) ==
    /\ kind[a] = "none"
    /\ \A b \in Attempts : b < a => kind[b] # "none"

\* An exit event: explicit stop, video change, unmount.
MarkExit == exited' = TRUE

\* Variant: connect() is not awaited, getUserMedia is requested at once.
StartLiveRecording_NoAwait(a) ==
    /\ TaskTurn /\ mounted
    /\ currentVideo = "none" /\ ~isRecording
    /\ NewAttempt(a)
    /\ ResetLiveText
    /\ kind' = [kind EXCEPT ![a] = "mic"]
    /\ pc' = [pc EXCEPT ![a] = "gum"]
    /\ LTConnect(a)
    /\ exited' = FALSE
    /\ UNCHANGED <<currentVideo, uiVars, stream, recorder, timer, sentIn, closeCalls>>
    /\ UNCHANGED <<frameVars, unitVars, genVars, urlVars, sumVars>>

\* startLiveRecording up to `await transcriber.connect()`.  The button is
\* rendered on the record tab while no video is shown and !isRecording.
StartLiveRecording(a) ==
    /\ TaskTurn /\ mounted
    /\ currentVideo = "none" /\ ~isRecording
    /\ NewAttempt(a)
    /\ ResetLiveText
    /\ kind' = [kind EXCEPT ![a] = "mic"]
    /\ pc' = [pc EXCEPT ![a] = "connect"]
    /\ LTConnect(a)
    /\ exited' = FALSE
    /\ UNCHANGED <<currentVideo, uiVars, stream, recorder, timer, sentIn, closeCalls>>
    /\ UNCHANGED <<frameVars, unitVars, genVars, urlVars, sumVars>>

\* Variant: the start branch does not call onLiveStart.
StartLivePlayback_NoReset(a) ==
    /\ TaskTurn /\ mounted
    /\ currentVideo = "localVideo" /\ ~isLivePlayback
    /\ NewAttempt(a)
    /\ UNCHANGED <<liveText, delivered>>
    /\ kind' = [kind EXCEPT ![a] = "playback"]
    /\ pc' = [pc EXCEPT ![a] = "connect"]
    /\ LTConnect(a)
    /\ exited' = FALSE
    /\ UNCHANGED <<currentVideo, uiVars, stream, recorder, timer, sentIn, closeCalls>>
    /\ UNCHANGED <<frameVars, unitVars, genVars, urlVars, sumVars>>

\* toggleLivePlayback, start branch, up to `await transcriber.connect()`.
\* The button is rendered over a local media preview; videoRef.current is
\* set only while the <video> element of a local video is rendered.
StartLivePlayback(a) ==
    /\ TaskTurn /\ mounted
    /\ currentVideo = "localVideo" /\ ~isLivePlayback
    /\ NewAttempt(a)
    /\ ResetLiveText
    /\ kind' = [kind EXCEPT ![a] = "playback"]
    /\ pc' = [pc EXCEPT ![a] = "connect"]
    /\ LTConnect(a)
    /\ exited' = FALSE
    /\ UNCHANGED <<currentVideo, uiVars, stream, recorder, timer, sentIn, closeCalls>>
    /\ UNCHANGED <<frameVars, unitVars, genVars, urlVars, sumVars>>

\* toggleLivePlayback, stop branch.
StopLivePlayback ==
    /\ TaskTurn /\ mounted
    /\ currentVideo \in {"localVideo", "localAudio"} /\ isLivePlayback
    /\ StopRef
    /\ transcriberRef' = 0
    /\ isLivePlayback' = FALSE
    /\ MarkExit
    /\ UNCHANGED <<appVars, mounted, isRecording, error, mediaRecorderRef,
                   attemptVars, sessVars, sentIn, closeCalls>>
    /\ UNCHANGED <<frameVars, unitVars, genVars, urlVars, sumVars>>

\* The catch block of the start handlers.
StartError(a) == IF kind[a] = "mic" THEN "micOrConnect" ELSE "liveAnalysis"

\* Variant: the rejection is swallowed and the handler goes on to acquire
\* the audio origin.
ConnectRejected_GoesOn(a) ==
    /\ TaskTurn
    /\ pc[a] = "connect" /\ session[a] = "Connecting"
    /\ session' = [session EXCEPT ![a] = "Errored"]
    /\ microtasks' = SelectSeq(microtasks, LAMBDA j : j[1] # a)
    /\ pc' = [pc EXCEPT ![a] = "gum"]
    /\ UNCHANGED <<appVars, uiVars, kind, stream, recorder, timer, ltVars, opened, obsVars>>
    /\ UNCHANGED <<frameVars, unitVars, genVars, urlVars, sumVars>>

\* Variant: the handler answers a rejection by connecting again.
ConnectRejected_Retries(a) ==
    /\ TaskTurn
    /\ pc[a] = "connect" /\ session[a] = "Connecting"
    /\ LTConnect(a)
    /\ UNCHANGED <<appVars, uiVars, attemptVars, obsVars>>
    /\ UNCHANGED <<frameVars, unitVars, genVars, urlVars, sumVars>>

\* ai.live.connect rejects: connect() throws into the handler's catch.
ConnectRejected(a) ==
    /\ TaskTurn
    /\ pc[a] = "connect" /\ session[a] = "Connecting"
    /\ session' = [session EXCEPT ![a] = "Errored"]
    /\ microtasks' = SelectSeq(microtasks, LAMBDA j : j[1] # a)
    /\ pc' = [pc EXCEPT ![a] = "connectFailed"]
    /\ error' = SetState(error, StartError(a))
    /\ UNCHANGED <<appVars, mounted, isRecording, isLivePlayback, transcriberRef,
                   mediaRecorderRef, kind, stream, recorder, timer, ltVars, opened, obsVars>>
    /\ UNCHANGED <<frameVars, unitVars, genVars, urlVars, sumVars>>

\* What videoRef.current.captureStream() gives after the await: a stream
\* with audio, a stream without audio tracks, or a throw (unsupported, or
\* videoRef.current is null because the element is no longer rendered).
CaptureOutcomes ==
    IF currentVideo = "localVideo" THEN {"stream", "noAudio", "throws"} ELSE {"throws"}

\* The rest of toggleLivePlayback after connect() resolved.
PlaybackContinue(a, cap) ==
    CASE cap = "stream" ->
            /\ LTStart(a)
            /\ stream' = [stream EXCEPT ![a] = "live"]
            /\ transcriberRef' = a
            /\ isLivePlayback' = SetState(isLivePlayback, TRUE)
            /\ pc' = [pc EXCEPT ![a] = "started"]
            /\ UNCHANGED error
      [] cap = "noAudio" ->
            /\ stream' = [stream EXCEPT ![a] = "live"]
            /\ error' = SetState(error, "noAudioTrack")
            /\ pc' = [pc EXCEPT ![a] = "noAudio"]
            /\ UNCHANGED <<ltVars, microtasks, transcriberRef, isLivePlayback>>
      [] OTHER ->
            /\ error' = SetState(error, StartError(a))
            /\ pc' = [pc EXCEPT ![a] = "captureFailed"]
            /\ UNCHANGED <<ltVars, microtasks, transcriberRef, isLivePlayback, stream>>

\* The handshake succeeds: sessionPromise is fulfilled and the handler
\* resumes after `await transcriber.connect()`.
ConnectResolved(a) ==
    /\ TaskTurn
    /\ pc[a] = "connect" /\ session[a] = "Connecting"
    /\ session' = [session EXCEPT ![a] = "Open"]
    /\ opened' = [opened EXCEPT ![a] = TRUE]
    /\ IF kind[a] = "mic"
       THEN \* navigator.mediaDevices.getUserMedia(...) is requested
            /\ pc' = [pc EXCEPT ![a] = "gum"]
            /\ UNCHANGED <<ltVars, microtasks, transcriberRef, isLivePlayback,
                           error, stream>>
       ELSE \E cap \in CaptureOutcomes : PlaybackContinue(a, cap)
    /\ UNCHANGED <<appVars, mounted, isRecording, mediaRecorderRef, kind, recorder, timer,
                   obsVars>>
    /\ UNCHANGED <<frameVars, unitVars, genVars, urlVars, sumVars>>

\* getUserMedia resolves: the rest of startLiveRecording.
GetUserMediaResolved(a) ==
    /\ TaskTurn
    /\ pc[a] = "gum"
    /\ LTStart(a)
    /\ stream' = [stream EXCEPT ![a] = "live"]
    /\ transcriberRef' = a
    /\ mediaRecorderRef' = a
    /\ recorder' = [recorder EXCEPT ![a] = "recording"]
    /\ isRecording' = SetState(isRecording, TRUE)
    /\ timer' = [timer EXCEPT ![a] = "running"]
    /\ pc' = [pc EXCEPT ![a] = "started"]
    /\ UNCHANGED <<appVars, mounted, isLivePlayback, error, kind, sessVars, obsVars>>
    /\ UNCHANGED <<frameVars, unitVars, genVars, urlVars, sumVars>>

\* Variant: the rejection is not caught before the recording is set up.
GetUserMediaRejected_Records(a) ==
    /\ TaskTurn
    /\ pc[a] = "gum"
    /\ isRecording' = SetState(isRecording, TRUE)
    /\ error' = SetState(error, StartError(a))
    /\ pc' = [pc EXCEPT ![a] = "captureFailed"]
    /\ UNCHANGED <<appVars, mounted, isLivePlayback, transcriberRef,
                   mediaRecorderRef, kind, stream, recorder, timer, ltVars, sessVars,
                   microtasks, obsVars>>
    /\ UNCHANGED <<frameVars, unitVars, genVars, urlVars, sumVars>>

\* getUserMedia rejects (permission denied, no device): the catch block.
GetUserMediaRejected(a) ==
    /\ TaskTurn
    /\ pc[a] = "gum"
    /\ error' = SetState(error, StartError(a))
    /\ pc' = [pc EXCEPT ![a] = "captureFailed"]
    /\ UNCHANGED <<appVars, mounted, isRecording, isLivePlayback, transcriberRef,
                   mediaRecorderRef, kind, stream, recorder, timer, ltVars, sessVars,
                   microtasks, obsVars>>
    /\ UNCHANGED <<frameVars, unitVars, genVars, urlVars, sumVars>>

\* if (timerRef.current) clearInterval(timerRef.current).  timerRef holds
\* the interval of the recording in mediaRecorderRef, or null once
\* stopLiveRecording cleared it; clearing a cleared interval does nothing.
ClearTimer ==
    timer' = [a \in Attempts |->
                 IF a = mediaRecorderRef /\ timer[a] = "running" THEN "cleared"
                 ELSE timer[a]]

\* stopLiveRecording.  The button is rendered on the record tab while
\* isRecording and no video is shown.
StopLiveRecording ==
    /\ TaskTurn /\ mounted
    /\ currentVideo = "none" /\ isRecording
    /\ StopRef
    /\ transcriberRef' = 0
    /\ IF mediaRecorderRef # 0 /\ isRecording
       THEN /\ recorder' = [recorder EXCEPT ![mediaRecorderRef] =
                                IF @ = "recording" THEN "stopping" ELSE @]
            /\ isRecording' = FALSE
            /\ ClearTimer
       ELSE UNCHANGED <<recorder, timer, isRecording>>
    /\ MarkExit
    /\ UNCHANGED <<appVars, mounted, isLivePlayback, error, mediaRecorderRef,
                   kind, pc, stream, sessVars, sentIn, closeCalls>>
    /\ UNCHANGED <<frameVars, unitVars, genVars, urlVars, sumVars>>

\* The effect on [currentVideo?.id]: setIsLivePlayback(false) and stop of
\* the referenced transcriber.
VideoIdEffect ==
    /\ isLivePlayback' = FALSE
    /\ StopRef
    /\ transcriberRef' = 0
    /\ MarkExit

\* mediaRecorder.onstop: release the microphone tracks and hand the file to
\* processFile, which clears the error, checks the size and starts the
\* FileReader.
RecorderOnStop(a) ==
    /\ TaskTurn
    /\ recorder[a] = "stopping"
    /\ stream' = [stream EXCEPT ![a] = "stopped"]
    /\ \E tooLarge \in BOOLEAN :
          IF tooLarge
          THEN /\ error' = SetState(error, "fileTooLarge")
               /\ recorder' = [recorder EXCEPT ![a] = "inactive"]
          ELSE /\ error' = SetState(error, "null")
               /\ recorder' = [recorder EXCEPT ![a] = "reading"]
    /\ UNCHANGED <<appVars, mounted, isRecording, isLivePlayback, transcriberRef,
                   mediaRecorderRef, kind, pc, ltVars, sessVars, microtasks, obsVars>>
    /\ UNCHANGED timer
    /\ UNCHANGED <<frameVars, unitVars, genVars, urlVars, sumVars>>

\* reader.onerror of processFile.
ReaderOnError(a) ==
    /\ TaskTurn
    /\ recorder[a] = "reading"
    /\ recorder' = [recorder EXCEPT ![a] = "inactive"]
    /\ error' = SetState(error, "readFailed")
    /\ UNCHANGED <<appVars, mounted, isRecording, isLivePlayback, transcriberRef,
                   mediaRecorderRef, kind, pc, stream, ltVars, sessVars, microtasks,
                   obsVars>>
    /\ UNCHANGED timer
    /\ UNCHANGED <<frameVars, unitVars, genVars, urlVars, sumVars>>

\* reader.onload of processFile for a recording: processFile hands every
\* file, the recorded one too, to onVideoSelected with sourceType 'upload'
\* -> handleVideoSelect, which calls setLiveText('') for every sourceType
\* but 'record'; the new id then runs the effect.  An unmounted tree
\* renders no effect.
ReaderOnLoad(a) ==
    /\ TaskTurn
    /\ recorder[a] = "reading"
    /\ recorder' = [recorder EXCEPT ![a] = "inactive"]
    /\ IF mounted
       THEN /\ currentVideo' = "localAudio"
            /\ ResetLiveText
            /\ VideoIdEffect
       ELSE UNCHANGED <<currentVideo, liveText, delivered, isLivePlayback,
                        transcriberRef, ltVars, microtasks, exited>>
    /\ UNCHANGED <<mounted, isRecording, error, mediaRecorderRef,
                   kind, pc, stream, sessVars, sentIn, closeCalls>>
    /\ UNCHANGED timer
    /\ UNCHANGED <<frameVars, unitVars, genVars, urlVars, sumVars>>

\* handleVideoSelect for an upload or a fetched URL (sourceType 'upload',
\* 'url' or 'youtube'; no caller passes 'record'):
\* setVideo, setLiveText(''), and the effect on the new id.
HandleVideoSelect(v) ==
    /\ TaskTurn /\ mounted
    /\ currentVideo' = v
    /\ ResetLiveText
    /\ VideoIdEffect
    /\ UNCHANGED <<mounted, isRecording, error, mediaRecorderRef, attemptVars,
                   sessVars, sentIn, closeCalls>>
    /\ UNCHANGED <<frameVars, unitVars, genVars, urlVars, sumVars>>

\* handleClear: setVideo(null), setLiveText('').
HandleClear ==
    /\ TaskTurn /\ mounted
    /\ currentVideo # "none"
    /\ currentVideo' = "none"
    /\ ResetLiveText
    /\ VideoIdEffect
    /\ UNCHANGED <<mounted, isRecording, error, mediaRecorderRef, attemptVars,
                   sessVars, sentIn, closeCalls>>
    /\ UNCHANGED <<frameVars, unitVars, genVars, urlVars, sumVars>>

\* restoreHistoryItem: setLiveText(''), setVideo(restored).  A restored
\* item has no local media and takes the id of the history item.  Restoring
\* the item already shown keeps the id, so the effect does not run.
RestoreHistoryItem(sameId) ==
    /\ TaskTurn /\ mounted
    /\ sameId => currentVideo = "restored"
    /\ currentVideo' = "restored"
    /\ ResetLiveText
    /\ IF sameId
       THEN UNCHANGED <<isLivePlayback, transcriberRef, ltVars, microtasks, exited>>
       ELSE VideoIdEffect
    /\ UNCHANGED <<mounted, isRecording, error, mediaRecorderRef, attemptVars,
                   sessVars, sentIn, closeCalls>>
    /\ UNCHANGED <<frameVars, unitVars, genVars, urlVars, sumVars>>

\* The cleanup of the mount effect: stop the referenced transcriber (the
\* ref is not cleared) and clear the duration timer.
Unmount ==
    /\ TaskTurn /\ mounted
    /\ mounted' = FALSE
    /\ StopRef
    /\ ClearTimer
    /\ MarkExit
    /\ UNCHANGED <<appVars, isRecording, isLivePlayback, error, transcriberRef,
                   mediaRecorderRef, kind, pc, stream, recorder, sessVars, sentIn,
                   closeCalls>>
    /\ UNCHANGED <<frameVars, unitVars, genVars, urlVars, sumVars>>

----------------------------------------------------------------------------
\* Environment: the remote service, the audio thread, the microtask queue

\* callbacks.onmessage
OnMessage(t, msg) ==
    /\ TaskTurn
    /\ session[t] = "Open"
    /\ Len(delivered) < MaxFrags
    /\ IF onmessage(msg) # <<>>
       THEN OnUpdate(onmessage(msg)[1])
       ELSE UNCHANGED <<liveText, delivered>>
    /\ UNCHANGED <<currentVideo, uiVars, attemptVars, ltVars, sessVars, microtasks,
                   obsVars>>
    /\ UNCHANGED <<frameVars, unitVars, genVars, urlVars, sumVars>>

\* callbacks.onmessage for a message that was on its way when stop() made
\* its session.close() call: connect() registered the callback for the
\* lifetime of the socket and stop() leaves it and this.onUpdate in place.
OnMessageLate(t, msg) ==
    /\ TaskTurn
    /\ opened[t] /\ session[t] = "Closed" /\ closeCalls[t] > 0
    /\ Len(delivered) < MaxFrags
    /\ IF onmessage(msg) # <<>>
       THEN OnUpdate(onmessage(msg)[1])
       ELSE UNCHANGED <<liveText, delivered>>
    /\ UNCHANGED <<currentVideo, uiVars, attemptVars, ltVars, sessVars, microtasks,
                   obsVars>>
    /\ UNCHANGED <<frameVars, unitVars, genVars, urlVars, sumVars>>

\* callbacks.onerror: logged only.
OnError(t) ==
    /\ TaskTurn
    /\ session[t] = "Open"
    /\ session' = [session EXCEPT ![t] = "Errored"]
    /\ UNCHANGED <<appVars, uiVars, attemptVars, ltVars, opened, microtasks, obsVars>>
    /\ UNCHANGED <<frameVars, unitVars, genVars, urlVars, sumVars>>

\* callbacks.onclose (the remote side closed the session): logged only.
OnClose(t) ==
    /\ TaskTurn
    /\ session[t] \in {"Open", "Errored"} /\ opened[t]
    /\ session' = [session EXCEPT ![t] = "Closed"]
    /\ UNCHANGED <<appVars, uiVars, attemptVars, ltVars, opened, microtasks, obsVars>>
    /\ UNCHANGED <<frameVars, unitVars, genVars, urlVars, sumVars>>

RECURSIVE Total(_, _)
\* f[1] + ... + f[n]
Total(f, n) == IF n = 0 THEN 0 ELSE f[n] + Total(f, n - 1)

\* An audioprocess event is dispatched to the handler.
AudioProcess(t) ==
    /\ TaskTurn
    /\ onaudioprocess[t]
    /\ Len(microtasks) < MaxQueued
    /\ Total(captured, MaxAttempts) < MaxFrames
    /\ OnAudioProcess(t)
    /\ UNCHANGED <<appVars, uiVars, attemptVars, ltVars, sessVars, obsVars, sendLog,
                   unitVars, genVars, urlVars, sumVars>>

\* Variant: the newest runnable reaction runs first.
RunMicrotask_Newest ==
    /\ RunnableIdx # {}
    /\ LET i == CHOOSE k \in RunnableIdx : \A m \in RunnableIdx : k >= m IN
          /\ RunReaction(microtasks[i])
          /\ microtasks' = RemoveAt(microtasks, i)
    /\ UNCHANGED <<appVars, uiVars, attemptVars, ltVars, opened, exited, captured,
                   unitVars, genVars, urlVars, sumVars>>

\* The oldest runnable reaction runs.
RunMicrotask ==
    /\ RunnableIdx # {}
    /\ LET i == CHOOSE k \in RunnableIdx : \A m \in RunnableIdx : k <= m IN
          /\ RunReaction(microtasks[i])
          /\ microtasks' = RemoveAt(microtasks, i)
    /\ UNCHANGED <<appVars, uiVars, attemptVars, ltVars, opened, exited, captured,
                   unitVars, genVars, urlVars, sumVars>>

----------------------------------------------------------------------------
LocalVideos == {"localVideo", "localAudio", "remote"}

\* Handlers of the component tree and the completions of what they await.
Lifecycle ==
    \/ \E a \in Attempts : StartLiveRecording(a)
    \/ \E a \in Attempts : StartLivePlayback(a)
    \/ StopLivePlayback
    \/ StopLiveRecording
    \/ \E a \in Attempts : ConnectResolved(a)
    \/ \E a \in Attempts : ConnectRejected(a)
    \/ \E a \in Attempts : GetUserMediaResolved(a)
    \/ \E a \in Attempts : GetUserMediaRejected(a)
    \/ \E a \in Attempts : RecorderOnStop(a)
    \/ \E a \in Attempts : ReaderOnLoad(a)
    \/ \E a \in Attempts : ReaderOnError(a)
    \/ \E v \in LocalVideos : HandleVideoSelect(v)
    \/ HandleClear
    \/ \E sameId \in BOOLEAN : RestoreHistoryItem(sameId)
    \/ Unmount
    \/ RunMicrotask

\* The audio thread.
Audio == \E t \in Attempts : AudioProcess(t)

\* The remote service.
Inbound == \E t \in Attempts, msg \in Messages : OnMessage(t, msg)

Faults ==
    \/ \E t \in Attempts : OnError(t)
    \/ \E t \in Attempts : OnClose(t)

Next == Lifecycle \/ Audio \/ Inbound \/ Faults

Spec == Init /\ [][Next]_vars

\* The capture path alone: the handlers and the audio thread.  Inbound
\* messages and remote faults change only liveText, delivered and session,
\* which no handler or audio callback reads.
CaptureNext == Lifecycle \/ Audio

CaptureSpec == Init /\ [][CaptureNext]_vars

\* The transcript path alone: the handlers and the inbound messages.  Audio
\* callbacks change only microtasks and sentIn, remote faults only end the
\* delivery of a session's messages.
TranscriptNext == Lifecycle \/ Inbound

TranscriptSpec == Init /\ [][TranscriptNext]_vars

\* The transcript path with the messages that arrive between the close()
\* call of stop() and the end of the transport.
Late == \E t \in Attempts, msg \in Messages : OnMessageLate(t, msg)

LateNext == Lifecycle \/ Inbound \/ Late

LateSpec == Init /\ [][LateNext]_vars

\* The handlers and the remote faults, without audio and inbound messages
\* (which start no handler and change neither kind nor connectCalls).
FaultNext == Lifecycle \/ Faults

FaultSpec == Init /\ [][FaultNext]_vars

\* What the code awaits settles (the network answers, the permission prompt
\* is answered, the recorder and the reader finish) and queued reactions
\* run; user events, audio callbacks and remote events are not forced.
Fairness ==
    /\ WF_vars(RunMicrotask)
    /\ \A a \in Attempts :
          /\ WF_vars(ConnectResolved(a) \/ ConnectRejected(a))
          /\ WF_vars(GetUserMediaResolved(a) \/ GetUserMediaRejected(a))
          /\ WF_vars(RecorderOnStop(a))
          /\ WF_vars(ReaderOnLoad(a) \/ ReaderOnError(a))

FairSpec == Init /\ [][Next]_vars /\ Fairness

----------------------------------------------------------------------------
\* LiveTranscriber driven through its public methods by an arbitrary
\* caller: connect() and start() at most once each, stop() any number of
\* times, in any order and possibly within one task.

\* One transcriber, constructed by the caller.
ApiInit ==
    /\ liveText = ""
    /\ currentVideo = "none"
    /\ delivered = <<>>
    /\ mounted = TRUE
    /\ isRecording = FALSE
    /\ isLivePlayback = FALSE
    /\ error = "null"
    /\ transcriberRef = 0
    /\ mediaRecorderRef = 0
    /\ kind = [a \in Attempts |-> IF a = 1 THEN "api" ELSE "none"]
    /\ pc = [a \in Attempts |-> "idle"]
    /\ stream = [a \in Attempts |-> "none"]
    /\ recorder = [a \in Attempts |-> "none"]
    /\ timer = [a \in Attempts |-> "none"]
    /\ sessionPromise = [a \in Attempts |-> "null"]
    /\ scriptProcessor = [a \in Attempts |-> FALSE]
    /\ inputAudioContext = [a \in Attempts |-> FALSE]
    /\ onaudioprocess = [a \in Attempts |-> FALSE]
    /\ session = [a \in Attempts |-> "Idle"]
    /\ opened = [a \in Attempts |-> FALSE]
    /\ microtasks = <<>>
    /\ sentIn = {}
    /\ closeCalls = [a \in Attempts |-> 0]
    /\ stopCalls = [a \in Attempts |-> 0]
    /\ connectCalls = [a \in Attempts |-> 0]
    /\ exited = FALSE
    /\ captured = [a \in Attempts |-> 0]
    /\ sendLog = [a \in Attempts |-> <<>>]
    /\ data = <<>>
    /\ blob = <<>>
    /\ message = <<>>
    /\ updates = <<>>
    /\ GenIdle
    /\ UrlIdle
    /\ SumIdle

ApiConnect(t) ==
    /\ kind[t] = "api" /\ pc[t] = "idle"
    /\ pc' = [pc EXCEPT ![t] = "connect"]
    /\ LTConnect(t)
    /\ UNCHANGED <<appVars, uiVars, kind, stream, recorder, timer, obsVars>>
    /\ UNCHANGED <<frameVars, unitVars, genVars, urlVars, sumVars>>

\* The handshake of a caller-driven transcriber succeeds or fails.
ApiConnectSettled(t, ok) ==
    /\ TaskTurn
    /\ kind[t] = "api" /\ pc[t] = "connect" /\ session[t] = "Connecting"
    /\ pc' = [pc EXCEPT ![t] = "settled"]
    /\ IF ok
       THEN /\ session' = [session EXCEPT ![t] = "Open"]
            /\ opened' = [opened EXCEPT ![t] = TRUE]
            /\ UNCHANGED microtasks
       ELSE /\ session' = [session EXCEPT ![t] = "Errored"]
            /\ microtasks' = SelectSeq(microtasks, LAMBDA j : j[1] # t)
            /\ UNCHANGED opened
    /\ UNCHANGED <<appVars, uiVars, kind, stream, recorder, timer, ltVars, obsVars>>
    /\ UNCHANGED <<frameVars, unitVars, genVars, urlVars, sumVars>>

ApiStart(t) ==
    /\ kind[t] = "api" /\ ~onaudioprocess[t]
    /\ LTStart(t)
    /\ stream' = [stream EXCEPT ![t] = "live"]
    /\ UNCHANGED <<appVars, uiVars, kind, pc, recorder, timer, sessVars, obsVars>>
    /\ UNCHANGED <<frameVars, unitVars, genVars, urlVars, sumVars>>

ApiStop(t) ==
    /\ kind[t] = "api" /\ stopCalls[t] < MaxStops
    /\ LTStop(t)
    /\ UNCHANGED <<appVars, uiVars, attemptVars, sessVars, obsVars>>
    /\ UNCHANGED <<frameVars, unitVars, genVars, urlVars, sumVars>>

ApiNext ==
    \/ \E t \in Attempts : ApiConnect(t)
    \/ \E t \in Attempts, ok \in BOOLEAN : ApiConnectSettled(t, ok)
    \/ \E t \in Attempts : ApiStart(t)
    \/ \E t \in Attempts : ApiStop(t)
    \/ Audio
    \/ Inbound
    \/ Faults
    \/ RunMicrotask

ApiSpec == ApiInit /\ [][ApiNext]_vars

----------------------------------------------------------------------------
\* App: analysis requests and history.  App is driven through the handlers
\* it passes to VideoUploader, Controls and HistorySidebar, called in any
\* order its render allows, and through the settling of the promises of
\* generateVideoSummary.  Ids: crypto.randomUUID() values are numbered in
\* generation order from YtId + 1, the items of a loaded history carry the
\* negative numbers, oldest lowest.  A text is named by the request that
\* produced it, 0 for a text of an earlier visit.

\* slice(0, 20)
HistoryCap == 20

\* The id of a YouTube video is the video id parsed from its URL.
YtId == 1

RandomUUID == YtId + uuids + 1

Sources == {"upload", "url", "youtube"}

\* A HistoryItem: [id, url ("undefined" when the video has none), resultText].
Item(id, url, text) == [id |-> id, url |-> url, resultText |-> text]

\* JSON.stringify of the list: a property whose value is undefined is left
\* out.
Stringify(list) ==
    [i \in 1..Len(list) |->
        IF list[i].url = "undefined"
        THEN [id |-> list[i].id, resultText |-> list[i].resultText]
        ELSE list[i]]

\* JSON.parse of the text: reading a property that is absent gives
\* undefined.
Parse(text) ==
    [i \in 1..Len(text) |->
        IF "url" \in DOMAIN text[i] THEN text[i]
        ELSE Item(text[i].id, "undefined", text[i].resultText)]

\* localStorage.getItem(...) and JSON.parse, [] when the key is absent.
Loaded == IF stored = <<>> THEN <<>> ELSE Parse(stored[1])

\* Variant: the list is not cut.
saveToHistory_NoCap(item) ==
    LET newHistory == <<item>> \o history IN
    /\ history' = newHistory
    /\ stored' = <<Stringify(newHistory)>>

\* saveToHistory: [item, ...prev].slice(0, 20), persisted.
saveToHistory(item) ==
    LET all == <<item>> \o history
        newHistory == SubSeq(all, 1, IF Len(all) < HistoryCap THEN Len(all) ELSE HistoryCap)
    IN  /\ history' = newHistory
        /\ stored' = <<Stringify(newHistory)>>

\* deleteHistoryItem(id): filter, persisted.
deleteHistoryItem(id) ==
    LET newHistory == SelectSeq(history, LAMBDA item : item.id # id) IN
    /\ history' = newHistory
    /\ stored' = <<Stringify(newHistory)>>

\* clearHistory: setHistory([]), removeItem.
clearHistory ==
    /\ history' = <<>>
    /\ stored' = <<>>

captureVars == <<uiVars, attemptVars, ltVars, sessVars, microtasks, obsVars, frameVars>>

\* What the preview of a source is, for VideoUploader.
PreviewOf(src) == IF src \in {"url", "youtube"} THEN "remote" ELSE "localVideo"

UrlOf(src) == IF src \in {"url", "youtube"} THEN "https" ELSE "undefined"

Pending == {k \in 1..Len(requests) : requests[k].state = "pending"}

\* Variant: the handler does not record the id of the video.
AppVideoSelect_NoRef(src, fresh) ==
    /\ mounted /\ Len(requests) < MaxRequests
    /\ fresh = (src # "youtube")
    /\ LET id == IF fresh THEN RandomUUID ELSE YtId IN
          /\ videoId' = id
          /\ currentVideoIdRef' = currentVideoIdRef
          /\ requests' = Append(requests,
                 [id |-> id, url |-> UrlOf(src), auto |-> TRUE, state |-> "pending"])
    /\ uuids' = IF fresh THEN uuids + 1 ELSE uuids
    /\ currentVideo' = PreviewOf(src)
    /\ IF src # "record" THEN ResetLiveText ELSE UNCHANGED <<liveText, delivered>>
    /\ analysis' = [isLoading |-> TRUE, error |-> FALSE, result |-> 0]
    /\ UNCHANGED <<history, stored, captureVars, unitVars, sumVars>>

\* handleVideoSelect(data): setVideo, the ref, setLiveText('') unless the
\* source is a recording, and the auto-triggered generation.  The caller
\* made the id: a fresh UUID, or the YouTube video id.
AppVideoSelect(src, fresh) ==
    /\ mounted /\ Len(requests) < MaxRequests
    /\ fresh = (src # "youtube")
    /\ LET id == IF fresh THEN RandomUUID ELSE YtId IN
          /\ videoId' = id
          /\ currentVideoIdRef' = id
          /\ requests' = Append(requests,
                 [id |-> id, url |-> UrlOf(src), auto |-> TRUE, state |-> "pending"])
    /\ uuids' = IF fresh THEN uuids + 1 ELSE uuids
    /\ currentVideo' = PreviewOf(src)
    /\ IF src # "record" THEN ResetLiveText ELSE UNCHANGED <<liveText, delivered>>
    /\ analysis' = [isLoading |-> TRUE, error |-> FALSE, result |-> 0]
    /\ UNCHANGED <<history, stored, captureVars, unitVars, sumVars>>

\* handleClear.  The button is rendered over a shown video and disabled
\* while analysis.isLoading.
AppClear ==
    /\ mounted
    /\ videoId # 0 /\ ~analysis.isLoading
    /\ videoId' = 0
    /\ currentVideoIdRef' = 0
    /\ currentVideo' = "none"
    /\ ResetLiveText
    /\ analysis' = NoAnalysis
    /\ UNCHANGED <<requests, history, stored, uuids, captureVars, unitVars, urlVars, sumVars>>

\* handleGenerate.  Controls is rendered while a video is shown and
\* disabled while analysis.isLoading.
AppGenerate ==
    /\ mounted /\ Len(requests) < MaxRequests
    /\ videoId # 0 /\ ~analysis.isLoading
    /\ analysis' = [analysis EXCEPT !.isLoading = TRUE, !.error = FALSE]
    /\ requests' = Append(requests,
           [id |-> videoId,
            url |-> IF currentVideo = "remote" THEN "https" ELSE "undefined",
            auto |-> FALSE, state |-> "pending"])
    /\ UNCHANGED <<appVars, videoId, currentVideoIdRef, history, stored, uuids,
                   captureVars, unitVars, urlVars, sumVars>>

\* restoreHistoryItem(item): the analysis shows the saved text and the
\* video takes the id of the item; currentVideoIdRef is not written.
AppRestore(i) ==
    /\ mounted
    /\ i \in 1..Len(history)
    /\ ResetLiveText
    /\ analysis' = [isLoading |-> FALSE, error |-> FALSE,
                    result |-> history[i].resultText]
    /\ videoId' = history[i].id
    /\ currentVideo' = IF history[i].url = "undefined" THEN "restored" ELSE "remote"
    /\ UNCHANGED <<currentVideoIdRef, requests, history, stored, uuids,
                   captureVars, unitVars, urlVars, sumVars>>

\* The guard of the callbacks of the auto-triggered request; the callbacks
\* of handleGenerate have none.
StillCurrent(req) == req.auto => currentVideoIdRef = req.id

\* The promise of request k settles: the .then / .catch callbacks of
\* handleVideoSelect, the continuation of handleGenerate.
GenerateSettled(k, ok) ==
    /\ k \in Pending
    /\ requests' = [requests EXCEPT ![k].state = IF ok THEN "resolved" ELSE "rejected"]
    /\ IF mounted /\ StillCurrent(requests[k])
       THEN IF ok
            THEN /\ analysis' = [isLoading |-> FALSE, error |-> FALSE, result |-> k]
                 /\ saveToHistory(Item(RandomUUID, requests[k].url, k))
                 /\ uuids' = uuids + 1
            ELSE /\ analysis' = [isLoading |-> FALSE, error |-> TRUE, result |-> 0]
                 /\ UNCHANGED <<history, stored, uuids>>
       ELSE UNCHANGED <<analysis, history, stored, uuids>>
    /\ UNCHANGED <<appVars, videoId, currentVideoIdRef, captureVars, unitVars, urlVars, sumVars>>

\* The delete button of a history item.
DeleteHistoryItem(i) ==
    /\ mounted
    /\ i \in 1..Len(history)
    /\ deleteHistoryItem(history[i].id)
    /\ UNCHANGED <<appVars, videoId, currentVideoIdRef, analysis, requests, uuids,
                   captureVars, unitVars, urlVars, sumVars>>

\* The "clear all" button, rendered while the history is not empty.
ClearHistory ==
    /\ mounted
    /\ history # <<>>
    /\ clearHistory
    /\ UNCHANGED <<appVars, videoId, currentVideoIdRef, analysis, requests, uuids,
                   captureVars, unitVars, urlVars, sumVars>>

GenNext ==
    \/ \E src \in Sources, fresh \in BOOLEAN :
          AppVideoSelect(src, fresh) /\ UNCHANGED urlVars
    \/ AppClear
    \/ AppGenerate
    \/ \E i \in 1..HistoryCap : AppRestore(i)
    \/ \E k \in 1..MaxRequests, ok \in BOOLEAN : GenerateSettled(k, ok)
    \/ \E i \in 1..HistoryCap : DeleteHistoryItem(i)
    \/ ClearHistory

GenSpec == Init /\ [][GenNext]_vars

\* The history on its own, from what a visit finds in localStorage: no key,
\* or the list an earlier visit persisted (empty, short, one below the cap,
\* at the cap).
LoadedSizes == {0, 1, HistoryCap - 1, HistoryCap}

PersistedList(n) ==
    [i \in 1..n |-> Item(-i, IF i % 2 = 0 THEN "https" ELSE "undefined", 0)]

HistoryInit ==
    /\ liveText = ""
    /\ currentVideo = "none"
    /\ delivered = <<>>
    /\ mounted = TRUE
    /\ isRecording = FALSE
    /\ isLivePlayback = FALSE
    /\ error = "null"
    /\ transcriberRef = 0
    /\ mediaRecorderRef = 0
    /\ kind = [a \in Attempts |-> "none"]
    /\ pc = [a \in Attempts |-> "idle"]
    /\ stream = [a \in Attempts |-> "none"]
    /\ recorder = [a \in Attempts |-> "none"]
    /\ timer = [a \in Attempts |-> "none"]
    /\ sessionPromise = [a \in Attempts |-> "null"]
    /\ scriptProcessor = [a \in Attempts |-> FALSE]
    /\ inputAudioContext = [a \in Attempts |-> FALSE]
    /\ onaudioprocess = [a \in Attempts |-> FALSE]
    /\ session = [a \in Attempts |-> "Idle"]
    /\ opened = [a \in Attempts |-> FALSE]
    /\ microtasks = <<>>
    /\ sentIn = {}
    /\ closeCalls = [a \in Attempts |-> 0]
    /\ stopCalls = [a \in Attempts |-> 0]
    /\ connectCalls = [a \in Attempts |-> 0]
    /\ exited = FALSE
    /\ captured = [a \in Attempts |-> 0]
    /\ sendLog = [a \in Attempts |-> <<>>]
    /\ data = <<>>
    /\ blob = <<>>
    /\ message = <<>>
    /\ updates = <<>>
    /\ videoId = 0
    /\ currentVideoIdRef = 0
    /\ analysis = NoAnalysis
    /\ requests = <<>>
    /\ stored \in {<<>>} \cup {<<Stringify(PersistedList(n))>> : n \in LoadedSizes}
    /\ history = Loaded
    /\ uuids = 0
    /\ UrlIdle
    /\ SumIdle

\* saveToHistory called with a new item.
HistorySave(url) ==
    /\ uuids < MaxSaves
    /\ saveToHistory(Item(RandomUUID, url, 0))
    /\ uuids' = uuids + 1
    /\ UNCHANGED <<appVars, videoId, currentVideoIdRef, analysis, requests,
                   captureVars, unitVars, urlVars, sumVars>>

\* The delete buttons pressed in the harness: of the newest, the second and
\* the oldest item.
HistoryDelete ==
    \E i \in {1, 2, Len(history)} : DeleteHistoryItem(i)

HistoryNext ==
    \/ \E url \in {"undefined", "https"} : HistorySave(url)
    \/ HistoryDelete
    \/ ClearHistory

HistorySpec == HistoryInit /\ [][HistoryNext]_vars

-----------------------------------------------------------------------------
\* VideoUploader, the link tab: handleUrlSubmit from the click to its last
\* callback.  The tab is rendered while no video is shown; the input and
\* the button are disabled while isProcessingUrl.

UrlInputs ==
    {"", "localhost", "youtube.com/feed", "https://youtu.be/dQw4w9WgXcQ",
     "cdn.example/a.mp4", "http://cdn.example/a.mp3", "example.com/watch"}

\* /^https?:\/\//i.test(processedInput)
HasScheme(u) ==
    u \in {"https://youtu.be/dQw4w9WgXcQ", "http://cdn.example/a.mp3",
           "https://localhost", "https://youtube.com/feed",
           "https://cdn.example/a.mp4", "https://example.com/watch"}

\* processedInput: https:// is prepended when no scheme was typed.
Normalize(u) == IF HasScheme(u) THEN u ELSE "https://" \o u

\* getYoutubeId(processedInput): the 11 character id, 0 for null.
getYoutubeId(p) == IF p = "https://youtu.be/dQw4w9WgXcQ" THEN YtId ELSE 0

isYoutubeDomain(p) == p \in {"https://youtu.be/dQw4w9WgXcQ", "https://youtube.com/feed"}

\* processedInput.split('.').pop(), as far as the handler tells it apart.
Ext(p) ==
    CASE p = "https://cdn.example/a.mp4" -> "mp4"
      [] p = "http://cdn.example/a.mp3" -> "mp3"
      [] OTHER -> "none"

\* The validation of the handler: the error it sets, "null" when it passes.
ValidationError(u) ==
    IF u = "" THEN "enterUrl"
    ELSE IF Normalize(u) = "https://localhost" THEN "invalidDomain"
    ELSE IF isYoutubeDomain(Normalize(u)) /\ getYoutubeId(Normalize(u)) = 0
         THEN "noVideoId"
    ELSE "null"

\* HTTP statuses of the answers; 0 stands for a fetch that rejects.
Statuses == {0, 200, 401, 403, 404, 500}

BlobTypes == {"video/mp4", "audio/mpeg", "text/html", "application/octet-stream"}

IsMedia(type) == type \in {"video/mp4", "audio/mpeg", "audio/mp3"}

\* What the handlers of the link tab leave alone.
UrlFrame ==
    UNCHANGED <<mounted, isRecording, isLivePlayback, transcriberRef, mediaRecorderRef,
                attemptVars, ltVars, sessVars, microtasks, obsVars, frameVars,
                unitVars, sumVars>>

\* onChange of the input.
UrlType(u) ==
    /\ mounted /\ currentVideo = "none" /\ ~isProcessingUrl
    /\ urlInput # u
    /\ urlInput' = u
    /\ UNCHANGED <<appVars, error, genVars, isProcessingUrl, urlPc, fetched, selections>>
    /\ UrlFrame

\* handleUrlSubmit up to its first await: setError(null), the validation
\* with its early returns, setIsProcessingUrl(true), and the first fetch
\* (the title for a YouTube id, HEAD otherwise).
HandleUrlSubmit ==
    /\ mounted /\ currentVideo = "none" /\ ~isProcessingUrl
    /\ Len(requests) < MaxRequests
    /\ selections' = 0
    /\ fetched' = NoBlob
    /\ urlInput' = IF urlInput = "" THEN urlInput ELSE Normalize(urlInput)
    /\ error' = ValidationError(urlInput)
    /\ IF ValidationError(urlInput) # "null"
       THEN UNCHANGED <<isProcessingUrl, urlPc>>
       ELSE /\ isProcessingUrl' = TRUE
            /\ urlPc' = IF getYoutubeId(Normalize(urlInput)) # 0 THEN "title" ELSE "head"
    /\ UNCHANGED <<appVars, genVars>>
    /\ UrlFrame

\* onVideoSelected({...}); setIsProcessingUrl(false).
UrlSelected(src) ==
    /\ AppVideoSelect(src, src # "youtube")
    /\ selections' = selections + 1
    /\ isProcessingUrl' = FALSE
    /\ urlPc' = "idle"
    /\ UNCHANGED <<urlInput, fetched>>

\* The outer catch: setError(err.message); setIsProcessingUrl(false).
UrlFailed(e) ==
    /\ error' = e
    /\ isProcessingUrl' = FALSE
    /\ urlPc' = "idle"
    /\ UNCHANGED <<appVars, genVars, urlInput, fetched, selections>>
    /\ UrlFrame

\* The title fetch settled: a title is taken from the answer, a failure is
\* only logged; the video is selected with the YouTube id.
UrlTitleSettled ==
    /\ urlPc = "title"
    /\ UrlSelected("youtube")

\* fetch(processedInput, {method: 'HEAD'}) settled.  404 and 401/403 are
\* rethrown to the outer catch; a rejection and "Server error." fall back to
\* the search analysis of the URL; any other answer goes on to the download.
UrlHeadSettled(status) ==
    /\ urlPc = "head"
    /\ IF status = 404 THEN UrlFailed("notFound")
       ELSE IF status \in {401, 403} THEN UrlFailed("accessDenied")
       ELSE IF status = 0 \/ status >= 500 THEN UrlSelected("url")
       ELSE /\ urlPc' = "get"
            /\ UNCHANGED <<appVars, error, genVars, urlInput, isProcessingUrl, fetched,
                           selections>>
            /\ UrlFrame

\* fetch(processedInput) settled.  "Failed to download media (Status: N)"
\* is rethrown when it contains "404" and falls back otherwise.
UrlGetSettled(status) ==
    /\ urlPc = "get"
    /\ IF status = 404 THEN UrlFailed("downloadFailed")
       ELSE IF status # 200 THEN UrlSelected("url")
       ELSE /\ urlPc' = "blob"
            /\ UNCHANGED <<appVars, error, genVars, urlInput, isProcessingUrl, fetched,
                           selections>>
            /\ UrlFrame

\* fullResponse.blob() settled: the MIME type check with the extension as
\* second source, the size check, and reader.readAsDataURL(blob).
UrlBlobSettled(ok, type, tooLarge) ==
    /\ urlPc = "blob"
    /\ LET newType == CASE Ext(urlInput) = "mp4" -> "video/mp4"
                        [] Ext(urlInput) = "mp3" -> "audio/mp3"
                        [] OTHER -> "null"
           blobType == IF IsMedia(type) THEN type ELSE newType
       IN  IF ~ok THEN UrlSelected("url")
           ELSE IF blobType = "null"
                THEN IF type = "text/html" THEN UrlSelected("url")
                     ELSE UrlFailed("notMedia")
           ELSE IF tooLarge THEN UrlSelected("url")
           ELSE /\ fetched' = [type |-> blobType, tooLarge |-> FALSE]
                /\ urlPc' = "reading"
                /\ UNCHANGED <<appVars, error, genVars, urlInput, isProcessingUrl,
                               selections>>
                /\ UrlFrame

\* The read succeeded: load, then loadend with the data URL in
\* reader.result.
UrlReaderOnLoadEnd ==
    /\ urlPc = "reading"
    /\ UrlSelected("url")

\* The read failed: reader.onerror throws in an event handler, outside the
\* try of the call that returned long ago; loadend follows with
\* reader.result = null and reader.onloadend throws at result.split before
\* it reaches onVideoSelected and setIsProcessingUrl(false).
UrlReaderOnError ==
    /\ urlPc = "reading"
    /\ urlPc' = "idle"
    /\ UNCHANGED <<appVars, error, genVars, urlInput, isProcessingUrl, fetched,
                   selections>>
    /\ UrlFrame

UrlNext ==
    \/ \E u \in UrlInputs : UrlType(u)
    \/ HandleUrlSubmit
    \/ UrlTitleSettled
    \/ \E status \in Statuses : UrlHeadSettled(status)
    \/ \E status \in Statuses : UrlGetSettled(status)
    \/ \E ok \in BOOLEAN, type \in BlobTypes, tooLarge \in BOOLEAN :
          UrlBlobSettled(ok, type, tooLarge)
    \/ UrlReaderOnLoadEnd
    \/ UrlReaderOnError
    \/ \E k \in 1..MaxRequests, ok \in BOOLEAN : GenerateSettled(k, ok)
    \/ AppClear

\* Every fetch settles and the FileReader finishes; what the user does is
\* not forced.
UrlFairness ==
    /\ WF_vars(UrlTitleSettled)
    /\ WF_vars(\E status \in Statuses : UrlHeadSettled(status))
    /\ WF_vars(\E status \in Statuses : UrlGetSettled(status))
    /\ WF_vars(\E ok \in BOOLEAN, type \in BlobTypes, tooLarge \in BOOLEAN :
                  UrlBlobSettled(ok, type, tooLarge))
    /\ WF_vars(UrlReaderOnLoadEnd \/ UrlReaderOnError)

UrlSpec == Init /\ [][UrlNext]_vars /\ UrlFairness

-----------------------------------------------------------------------------
\* generateVideoSummary(video, mode, tier) applied to one input: the request
\* it builds, the generateContent call and the promise it returns.

\* A string field as the code sees it: undefined, empty or not.
Base64Values == {"undefined", "", "AAAA"}

MimeValues == {"undefined", "", "video/mp4"}

UrlValues == {"undefined", "", "https://cdn.example/a.mp4"}

Modes == {"Overview", "Key Points", "Transcription"}

Tiers == {"Fast (Flash Lite)", "Standard (Flash)", "Deep Thinking (Pro 3)"}

\* The test JavaScript applies to a string | undefined operand of && and if.
Truthy(x) == x \notin {"undefined", ""}

getPromptForMode(m) ==
    CASE m = "Transcription" -> "Provide a verbatim transcription"
      [] m = "Key Points" -> "Analyze the content"
      [] OTHER -> "Provide a comprehensive but concise summary"

modelId(t) ==
    CASE t = "Fast (Flash Lite)" -> "gemini-flash-lite-latest"
      [] t = "Deep Thinking (Pro 3)" -> "gemini-3-pro-preview"
      [] OTHER -> "gemini-2.5-flash"

\* The search prompt: name of the part, the URL, the task.
searchPrompt(v, m) ==
    <<"searchPrompt", v.url,
      IF m = "Transcription" THEN "Attempt to find a verbatim transcript via search"
      ELSE getPromptForMode(m)>>

\* Variant: the URL is looked at before the file data.
BuildRequest_UrlFirst(v, m, t) ==
    IF Truthy(v.url)
    THEN <<[model |-> modelId(t), inlineData |-> <<>>, text |-> searchPrompt(v, m),
            tools |-> {"googleSearch"}]>>
    ELSE IF Truthy(v.base64Data) /\ Truthy(v.mimeType)
    THEN <<[model |-> modelId(t), inlineData |-> <<v.mimeType, v.base64Data>>,
            text |-> <<"prompt", getPromptForMode(m)>>, tools |-> {}]>>
    ELSE <<>>

\* contents and config as the if / else if / else builds them: <<request>>,
\* or <<>> when the else branch throws.
BuildRequest(v, m, t) ==
    IF Truthy(v.base64Data) /\ Truthy(v.mimeType)
    THEN <<[model |-> modelId(t), inlineData |-> <<v.mimeType, v.base64Data>>,
            text |-> <<"prompt", getPromptForMode(m)>>, tools |-> {}]>>
    ELSE IF Truthy(v.url)
    THEN <<[model |-> modelId(t), inlineData |-> <<>>, text |-> searchPrompt(v, m),
            tools |-> {"googleSearch"}]>>
    ELSE <<>>

\* What generateContent can settle with: a response whose text is
\* undefined, empty or not, or a thrown value that is an Error with a
\* message or anything else.
Responses ==
    {[thrown |-> FALSE, isError |-> FALSE, text |-> x, message |-> "undefined"] :
        x \in {"undefined", "", "A summary"}}
    \cup
    {[thrown |-> TRUE, isError |-> e, text |-> "undefined", message |-> x] :
        e \in BOOLEAN, x \in {"undefined", "", "quota exceeded"}}

\* The catch: throw new Error(error.message || "Failed to generate ...").
Rejected(msg) ==
    [state |-> "rejected", isError |-> TRUE,
     value |-> IF Truthy(msg) THEN msg ELSE "Failed to generate summary"]

\* After the await: return response.text when it is truthy, throw "No
\* summary generated" otherwise; the catch wraps what was thrown.
Settle(resp) ==
    IF ~resp.thrown
    THEN IF Truthy(resp.text)
         THEN [state |-> "fulfilled", isError |-> FALSE, value |-> resp.text]
         ELSE Rejected("No summary generated")
    ELSE Rejected(resp.message)

SummaryInit ==
    /\ liveText = ""
    /\ currentVideo = "none"
    /\ delivered = <<>>
    /\ mounted = TRUE
    /\ isRecording = FALSE
    /\ isLivePlayback = FALSE
    /\ error = "null"
    /\ transcriberRef = 0
    /\ mediaRecorderRef = 0
    /\ kind = [a \in Attempts |-> "none"]
    /\ pc = [a \in Attempts |-> "idle"]
    /\ stream = [a \in Attempts |-> "none"]
    /\ recorder = [a \in Attempts |-> "none"]
    /\ timer = [a \in Attempts |-> "none"]
    /\ sessionPromise = [a \in Attempts |-> "null"]
    /\ scriptProcessor = [a \in Attempts |-> FALSE]
    /\ inputAudioContext = [a \in Attempts |-> FALSE]
    /\ onaudioprocess = [a \in Attempts |-> FALSE]
    /\ session = [a \in Attempts |-> "Idle"]
    /\ opened = [a \in Attempts |-> FALSE]
    /\ microtasks = <<>>
    /\ sentIn = {}
    /\ closeCalls = [a \in Attempts |-> 0]
    /\ stopCalls = [a \in Attempts |-> 0]
    /\ connectCalls = [a \in Attempts |-> 0]
    /\ exited = FALSE
    /\ captured = [a \in Attempts |-> 0]
    /\ sendLog = [a \in Attempts |-> <<>>]
    /\ data = <<>>
    /\ blob = <<>>
    /\ message = <<>>
    /\ updates = <<>>
    /\ GenIdle
    /\ UrlIdle
    /\ video \in [base64Data : Base64Values, mimeType : MimeValues, url : UrlValues]
    /\ mode \in Modes
    /\ tier \in Tiers
    /\ request = <<>>
    /\ response = NoResponse
    /\ promise = NoPromise

\* The call, to the await of generateContent or to the throw of the else
\* branch.
GenerateVideoSummary ==
    /\ promise = NoPromise
    /\ request' = BuildRequest(video, mode, tier)
    /\ promise' = IF BuildRequest(video, mode, tier) = <<>>
                  THEN Rejected("Invalid media data source")
                  ELSE [state |-> "pending", isError |-> FALSE, value |-> "undefined"]
    /\ UNCHANGED <<video, mode, tier, response>>
    /\ UNCHANGED <<appVars, captureVars, unitVars, genVars, urlVars>>

\* ai.models.generateContent settled.
GenerateContentSettled(resp) ==
    /\ promise.state = "pending"
    /\ response' = resp
    /\ promise' = Settle(resp)
    /\ UNCHANGED <<video, mode, tier, request>>
    /\ UNCHANGED <<appVars, captureVars, unitVars, genVars, urlVars>>

SummaryNext ==
    \/ GenerateVideoSummary
    \/ \E resp \in Responses : GenerateContentSettled(resp)

SummarySpec == SummaryInit /\ [][SummaryNext]_vars

----------------------------------------------------------------------------
\* The encoder and the onmessage test on their own: createBlob applied to
\* one sample buffer, onmessage to one inbound message.

\* -1.0, -0.75/32768, 0, 0.75/32768, 0.5, 32767/32768, 1.0, and beyond the
\* nominal range -2.5, -1.25, 1.5
Samples ==
    {-SampleUnit, -3, 0, 3, SampleUnit \div 2, SampleUnit - 4, SampleUnit}
    \cup {-(5 * SampleUnit) \div 2, -(5 * SampleUnit) \div 4, (3 * SampleUnit) \div 2}

RECURSIVE Buffers(_)
\* The sample buffers of length n.
Buffers(n) ==
    IF n = 0 THEN {<<>>}
    ELSE {Append(b, x) : b \in Buffers(n - 1), x \in Samples}

UnitInit ==
    /\ liveText = ""
    /\ currentVideo = "none"
    /\ delivered = <<>>
    /\ mounted = TRUE
    /\ isRecording = FALSE
    /\ isLivePlayback = FALSE
    /\ error = "null"
    /\ transcriberRef = 0
    /\ mediaRecorderRef = 0
    /\ kind = [a \in Attempts |-> "none"]
    /\ pc = [a \in Attempts |-> "idle"]
    /\ stream = [a \in Attempts |-> "none"]
    /\ recorder = [a \in Attempts |-> "none"]
    /\ timer = [a \in Attempts |-> "none"]
    /\ sessionPromise = [a \in Attempts |-> "null"]
    /\ scriptProcessor = [a \in Attempts |-> FALSE]
    /\ inputAudioContext = [a \in Attempts |-> FALSE]
    /\ onaudioprocess = [a \in Attempts |-> FALSE]
    /\ session = [a \in Attempts |-> "Idle"]
    /\ opened = [a \in Attempts |-> FALSE]
    /\ microtasks = <<>>
    /\ sentIn = {}
    /\ closeCalls = [a \in Attempts |-> 0]
    /\ stopCalls = [a \in Attempts |-> 0]
    /\ connectCalls = [a \in Attempts |-> 0]
    /\ exited = FALSE
    /\ captured = [a \in Attempts |-> 0]
    /\ sendLog = [a \in Attempts |-> <<>>]
    /\ \E n \in 0..MaxSamples : data \in Buffers(n)
    /\ blob = <<>>
    /\ message \in Messages
    /\ updates = <<>>
    /\ GenIdle
    /\ UrlIdle
    /\ SumIdle

UnitCreateBlob ==
    /\ blob = <<>>
    /\ blob' = createBlob(data)
    /\ UNCHANGED <<appVars, uiVars, attemptVars, ltVars, sessVars, microtasks,
                   obsVars, frameVars, genVars, urlVars, sumVars, data, message, updates>>

UnitOnMessage ==
    /\ updates = <<>>
    /\ updates' = <<onmessage(message)>>
    /\ UNCHANGED <<appVars, uiVars, attemptVars, ltVars, sessVars, microtasks,
                   obsVars, frameVars, genVars, urlVars, sumVars, data, blob, message>>

UnitNext == UnitCreateBlob \/ UnitOnMessage

UnitSpec == UnitInit /\ [][UnitNext]_vars

----------------------------------------------------------------------------
\* Properties

RECURSIVE Join(_)
\* f1 + " " + f2 + " " + ... + " " + fn, and "" for no fragment.
Join(fs) ==
    IF fs = <<>> THEN ""
    ELSE IF Len(fs) = 1 THEN fs[1]
    ELSE Join(SubSeq(fs, 1, Len(fs) - 1)) \o " " \o fs[Len(fs)]

Queued(t) == {i \in 1..Len(microtasks) : microtasks[i][1] = t}

\* C1: the live transcript is the space-joined sequence of the fragments
\* delivered through onUpdate since the last reset, "" when there is none.
C1_SpaceJoined == mounted => liveText = Join(delivered)

C1_Witness ==
    /\ mounted
    /\ delivered = <<"The quick", "brown fox">>
    /\ liveText = "The quick brown fox"

\* Sessions that were connected and have not been asked to close.
LiveSessions == {t \in Attempts : opened[t] /\ session[t] = "Open" /\ stopCalls[t] = 0}

\* C2: at most one connected session that was not asked to close exists.
C2_AtMostOneSession == Cardinality(LiveSessions) <= 1

FailedAfterConnect(a) == pc[a] \in {"captureFailed", "noAudio"}

\* close() was invoked on the session of transcriber a, or the session is
\* no longer up anyway (never opened, errored, closed by the remote side).
SessionEnded(a) == closeCalls[a] > 0 \/ session[a] \notin {"Connecting", "Open"}

\* C3: a start that fails after connect() succeeded leads to the session it
\* opened being released (close() invoked on it).
C3_ClosedAfterFailedStart ==
    \A a \in Attempts : FailedAfterConnect(a) ~> SessionEnded(a)

\* The session of transcriber a is gone and its audio callback is not
\* registered.
Released(a) == SessionEnded(a) /\ ~scriptProcessor[a]

AllReleased == \A a \in Attempts : kind[a] # "none" => Released(a)

\* C4: after an exit event (explicit stop, change of the video id, unmount)
\* every session constructed so far is eventually closed and no audio
\* callback stays registered, unless a new capture is started meanwhile.
C4_ReleasedAfterExit == exited ~> (AllReleased \/ ~exited)

\* The audio device or tap of a capture: the microphone tracks of a
\* recording, the audio graph tapping the media element of a playback.
DeviceReleased(t) ==
    IF kind[t] = "mic" THEN stream[t] # "live" ELSE ~inputAudioContext[t]

\* C5: when close() is invoked on the session, the audio callback has been
\* stopped and the audio device or tap has been released.
C5_StopOrder ==
    \A t \in Attempts :
        closeCalls[t] > 0 => ~scriptProcessor[t] /\ DeviceReleased(t)

AllNull(t) ==
    sessionPromise[t] = "null" /\ ~scriptProcessor[t] /\ ~inputAudioContext[t]

\* C6: close() is invoked at most once per session whatever the number of
\* stop() calls; once stop() took the promise and the deferred close ran the
\* session is Closed; stop() on a transcriber whose fields are all null
\* changes nothing but the call count.
C6_StopIdempotent ==
    [][\A t \in Attempts :
          /\ closeCalls'[t] <= 1
          /\ (sessionPromise'[t] = "null" /\ opened'[t] /\ stopCalls'[t] > 0
                /\ \A i \in 1..Len(microtasks') : microtasks'[i] # <<t, "close", 0>>)
             => session'[t] = "Closed"
          /\ (stopCalls'[t] > stopCalls[t] /\ AllNull(t))
             => UNCHANGED <<sessionPromise, scriptProcessor, inputAudioContext,
                            onaudioprocess, session, opened, microtasks,
                            closeCalls, sentIn>>
      ]_vars

C6_Witness == stopCalls[1] = 2 /\ closeCalls[1] = 1 /\ session[1] = "Closed"

\* C7: sendRealtimeInput is invoked only on a session that is Open.
C7_NothingSentUnlessOpen == sentIn \subseteq {"Open"}

\* A flag is up only for a capture that was started.
FlagsOnlyForStarted ==
    /\ isRecording => \E b \in Attempts : kind[b] = "mic" /\ pc[b] = "started"
    /\ isLivePlayback => \E b \in Attempts : kind[b] = "playback" /\ pc[b] = "started"

NeverCaptured(a) ==
    /\ ~onaudioprocess[a] /\ ~scriptProcessor[a] /\ ~inputAudioContext[a]
    /\ recorder[a] = "none"
    /\ transcriberRef # a /\ mediaRecorderRef # a
    /\ \A i \in Queued(a) : microtasks[i][2] # "send"

\* C8: when connect() is rejected the handler reports the error and ends
\* there: the audio origin is never requested, start() is never called, no
\* send is queued, and the step raises neither isRecording nor
\* isLivePlayback, which are up only for started captures.
C8_ConnectFailure ==
    [][\A a \in Attempts :
          /\ (PromiseState(a)' = "rejected") =>
                /\ pc'[a] = "connectFailed"
                /\ stream'[a] = "none"
                /\ NeverCaptured(a)'
                /\ FlagsOnlyForStarted'
          /\ (PromiseState(a) # "rejected" /\ PromiseState(a)' = "rejected") =>
                /\ mounted => error' = StartError(a)
                /\ UNCHANGED <<isRecording, isLivePlayback>>
      ]_vars

C8_Witness ==
    \E a \in Attempts :
        /\ PromiseState(a) = "rejected"
        /\ kind[a] \in {"mic", "playback"}
        /\ error = StartError(a)
        /\ ~isRecording /\ ~isLivePlayback

\* C9: when the audio origin cannot be acquired the handler reports the
\* error and ends there: start() is never called, nothing is recorded, no
\* send is queued, and the step raises neither flag.
C9_CaptureUnavailable ==
    [][\A a \in Attempts :
          /\ FailedAfterConnect(a)' =>
                /\ NeverCaptured(a)'
                /\ FlagsOnlyForStarted'
                /\ FailedAfterConnect(a) => pc'[a] = pc[a]
          /\ (~FailedAfterConnect(a) /\ FailedAfterConnect(a)') =>
                /\ mounted =>
                      error' = IF pc'[a] = "noAudio" THEN "noAudioTrack"
                               ELSE StartError(a)
                /\ UNCHANGED <<isRecording, isLivePlayback>>
      ]_vars

C9_Witness ==
    /\ \E a \in Attempts : kind[a] = "mic" /\ pc[a] = "captureFailed"
    /\ \E a \in Attempts : kind[a] = "playback" /\ pc[a] = "noAudio"
    /\ ~isRecording /\ ~isLivePlayback

\* C10: start() is called, and a send is queued or made, only for a
\* session whose connect() has resolved.
C10_NoSendBeforeOpen ==
    /\ \A t \in Attempts : onaudioprocess[t] => opened[t]
    /\ \A i \in 1..Len(microtasks) :
          microtasks[i][2] = "send" => opened[microtasks[i][1]]
    /\ sentIn \cap {"Idle", "Connecting"} = {}

C10_Witness ==
    /\ "Open" \in sentIn
    /\ \E t \in Attempts : kind[t] = "mic" /\ onaudioprocess[t]
    /\ \E t \in Attempts : kind[t] = "playback" /\ onaudioprocess[t]

\* The frames of the send reactions still queued for transcriber t, oldest
\* first.
QueuedFrames(t) ==
    LET q == SelectSeq(microtasks, LAMBDA j : j[1] = t /\ j[2] = "send")
    IN  [i \in 1..Len(q) |-> q[i][3]]

\* C11: the frames passed to sendRealtimeInput are the frames the audio
\* callback encoded, one call per frame, in capture order: what was sent is
\* 1..k, and unless the handshake failed, what was sent followed by what is
\* still queued is every frame encoded so far, each once and in order.
C11_FifoSends ==
    \A t \in Attempts :
        /\ sendLog[t] = [i \in 1..Len(sendLog[t]) |-> i]
        /\ PromiseState(t) # "rejected" =>
               sendLog[t] \o QueuedFrames(t) = [i \in 1..captured[t] |-> i]

C11_Witness ==
    \E t \in Attempts :
        /\ sendLog[t] = <<1, 2>> /\ captured[t] = 2
        /\ sentIn = {"Open"} /\ scriptProcessor[t]

\* C12: fragments are applied in arrival order and each append works on the
\* result of the previous one: the step that delivers a fragment extends
\* the transcript as it stood before the step by that fragment, after a
\* separating space when it was non-empty.
C12_AppliedInOrder ==
    [][(mounted /\ Len(delivered') = Len(delivered) + 1) =>
          /\ SubSeq(delivered', 1, Len(delivered)) = delivered
          /\ liveText' = liveText \o (IF liveText = "" THEN "" ELSE " ")
                                  \o delivered'[Len(delivered')]
      ]_vars

C12_Witness ==
    /\ mounted
    /\ delivered = <<"brown fox", "The quick">>
    /\ liveText = "brown fox The quick"

\* C13 as stated: a message that carries inputTranscription.text causes
\* exactly one onUpdate call, with that text; a message without the field
\* causes none.
C13_OneUpdatePerMessage ==
    updates # <<>> =>
        updates[1] = (IF message # <<>> THEN <<message[1]>> ELSE <<>>)

\* C13 amended: a message that carries a non-empty inputTranscription.text
\* causes exactly one onUpdate call, with that text; a message without the
\* field, or with an empty text, causes none.
C13_OneUpdatePerFragment ==
    updates # <<>> =>
        updates[1] = (IF message # <<>> /\ message[1] # "" THEN <<message[1]>>
                      ELSE <<>>)

C13_Witness ==
    /\ message = <<"The quick">>
    /\ updates = << <<"The quick">> >>

\* Reading a chunk back: base64 -> bytes -> little-endian signed 16-bit.
B64Index(c) == CHOOSE i \in 0..63 : B64Chars[i + 1] = c

RECURSIVE atob(_)
atob(chars) ==
    IF Len(chars) < 4 THEN <<>>
    ELSE LET n1 == B64Index(chars[1])
             n2 == B64Index(chars[2])
             b1 == n1 * 4 + (n2 \div 16)
             rest == atob(SubSeq(chars, 5, Len(chars)))
         IN  IF chars[3] = "=" THEN <<b1>>
             ELSE LET n3 == B64Index(chars[3])
                      b2 == (n2 % 16) * 16 + (n3 \div 4)
                  IN  IF chars[4] = "=" THEN <<b1, b2>>
                      ELSE <<b1, b2, (n3 % 4) * 64 + B64Index(chars[4])>> \o rest

Int16LE(bytes) ==
    [i \in 1..(Len(bytes) \div 2) |-> ToInt16(bytes[2 * i - 1] + 256 * bytes[2 * i])]

Decoded == Int16LE(atob(blob[1]))

Abs(x) == IF x < 0 THEN -x ELSE x

\* Math.round(num / den) for den > 0.
Round(num, den) == (2 * num + den) \div (2 * den)

\* Every sample of the buffer is in [-1.0, 1.0].
InRange(data_) == \A i \in 1..Len(data_) : Abs(data_[i]) <= SampleUnit

\* C18: decoding the chunk and dividing by 32768 gives back every sample
\* of a buffer in [-1.0, 1.0] to within one 16-bit step, and as many
\* samples as the buffer has.
C18_RoundTrip ==
    (blob # <<>> /\ InRange(data)) =>
        /\ Len(Decoded) = Len(data)
        /\ \A i \in 1..Len(data) : Abs(Decoded[i] * Quantum - data[i]) <= Quantum

\* C19: every sample s is stored as round(s * 32768), and the chunk is
\* tagged audio/pcm;rate=16000.
C19_RoundsToNearest ==
    (blob # <<>> /\ InRange(data)) =>
        /\ Decoded = [i \in 1..Len(data) |-> Round(data[i], Quantum)]
        /\ blob[2] = "audio/pcm;rate=16000"

\* The step is a capture start: a start handler constructs a transcriber.
CaptureStarts ==
    \E a \in Attempts : kind[a] = "none" /\ kind'[a] \in {"mic", "playback"}

\* The step empties a non-empty transcript.
Emptied == liveText # "" /\ liveText' = ""

\* C14 as stated: every capture start leaves the transcript empty, and
\* nothing but a capture start empties it.
C14_ResetExactlyAtStart ==
    [][/\ CaptureStarts => (liveText' = "" /\ delivered' = <<>>)
       /\ Emptied => CaptureStarts
      ]_vars

\* C14 amended: every capture start leaves the transcript empty, and
\* besides a capture start only handleVideoSelect (for every source the
\* uploader hands over, the recorded file included), handleClear and
\* restoreHistoryItem empty it.
C14_ResetAtStartOrVideoChange ==
    [][/\ CaptureStarts => (liveText' = "" /\ delivered' = <<>>)
       /\ Emptied =>
             \/ CaptureStarts
             \/ \E v \in LocalVideos : HandleVideoSelect(v)
             \/ \E a \in Attempts : ReaderOnLoad(a)
             \/ HandleClear
             \/ \E sameId \in BOOLEAN : RestoreHistoryItem(sameId)
      ]_vars

C14_Witness ==
    /\ liveText = "" /\ delivered = <<>>
    /\ \E a, b \in Attempts :
          /\ a # b /\ kind[a] = "playback" /\ stopCalls[a] > 0
          /\ kind[b] \in {"mic", "playback"} /\ pc[b] = "connect"

\* What one step may append to the transcript.
Extensions == {""} \cup MsgTexts \cup {" " \o x : x \in MsgTexts}

\* A capture that is running before and after the step.
CaptureGoesOn == \E t \in Attempts : scriptProcessor[t] /\ scriptProcessor'[t]

\* C15: while a capture is running (started, not stopped, and no new
\* capture started in the step) every step extends the transcript: the
\* previous value is a prefix of the new one.
C15_AppendOnly ==
    [][(CaptureGoesOn /\ ~CaptureStarts) =>
          \E x \in Extensions : liveText' = liveText \o x
      ]_vars

SessionEdges ==
    { <<"Idle", "Connecting">>, <<"Connecting", "Open">>,
      <<"Connecting", "Errored">>, <<"Open", "Errored">>,
      <<"Open", "Closed">>, <<"Errored", "Closed">> }

\* C16: the connection state of a session changes only along Idle ->
\* Connecting -> Open -> Closed, to Errored only from Connecting or Open, to
\* Closed only from Open or Errored; nothing leaves Closed, and close() is
\* never applied to a session that is still Connecting (or Idle).
C16_SessionStateMachine ==
    [][\A t \in Attempts :
          /\ session'[t] # session[t] => <<session[t], session'[t]>> \in SessionEdges
          /\ closeCalls'[t] # closeCalls[t] => session[t] \notin {"Idle", "Connecting"}
      ]_vars

C16_Witness ==
    \E t \in Attempts :
        /\ session[t] = "Closed" /\ opened[t]
        /\ closeCalls[t] = 1 /\ stopCalls[t] = 1
        /\ sessionPromise[t] = "null"

\* The session of the running capture the mounted component refers to was
\* ended by the remote side (error or close after Open), not by stop(),
\* after frames had been sent on it.
EndedMidStream(t) ==
    /\ opened[t] /\ session[t] \in {"Errored", "Closed"} /\ closeCalls[t] = 0
    /\ scriptProcessor[t] /\ pc[t] = "started"
    /\ mounted /\ transcriberRef = t
    /\ sendLog[t] # <<>> /\ sentIn = {"Open"}

\* C17: when the session of a running capture errors or is closed by the
\* remote side, the capture is terminated (its audio callback is stopped)
\* and the live/recording flags are reset.  Stated in its weakest form:
\* at least one of the two eventually happens.
C17_ErrorEndsCapture ==
    \A t \in Attempts :
        EndedMidStream(t) ~>
            (~scriptProcessor[t] \/ (~isRecording /\ ~isLivePlayback))

\* C20: every ai.live.connect call is made by a user start action, one per
\* action: a transcriber is connected once when a start handler constructs
\* it and never again, whatever happens to its session afterwards.
C20_NoReconnect ==
    [][\A a \in Attempts :
          /\ connectCalls'[a] = (IF kind'[a] \in {"mic", "playback"} THEN 1 ELSE 0)
          /\ connectCalls'[a] # connectCalls[a] =>
                (kind[a] = "none" /\ kind'[a] \in {"mic", "playback"}
                 /\ TaskTurn /\ mounted)
      ]_vars

C20_Witness ==
    \E a, b \in Attempts :
        /\ PromiseState(a) = "rejected" /\ connectCalls[a] = 1
        /\ opened[b] /\ session[b] \in {"Errored", "Closed"} /\ closeCalls[b] = 0
        /\ pc[b] = "started" /\ connectCalls[b] = 1

\* k modulo 2^16 as a signed 16-bit number, by repeated subtraction or
\* addition of 2^16.
RECURSIVE Wrapped(_)
Wrapped(k) ==
    IF k > 32767 THEN Wrapped(k - 65536)
    ELSE IF k < -32768 THEN Wrapped(k + 65536)
    ELSE k

Listening == {t \in Attempts : session[t] = "Open" /\ stopCalls[t] = 0}

\* C22: once stop() has been called on a transcriber onUpdate is not
\* invoked for its session any more: every onUpdate call is made for a
\* session that is open and was not stopped, so nothing that arrives after
\* stop() reaches the transcript of the stopped or of a later capture.
C22_NoUpdateAfterStop ==
    [][Len(delivered') > Len(delivered) => Listening # {}]_vars

\* Positions of the reactions of kind op queued for transcriber t.
QueuedOps(t, op) ==
    {i \in 1..Len(microtasks) : microtasks[i][1] = t /\ microtasks[i][2] = op}

\* stop() has deferred or made the close() call of the session of t.
CloseDeferred(t) == closeCalls[t] > 0 \/ QueuedOps(t, "close") # {}

\* C23: no sendRealtimeInput call is made on a session after stop() invoked
\* close() on it: a send deferred before stop() is queued ahead of the
\* deferred close, and once stop() has deferred the close no audio callback
\* encodes or queues another frame.
C23_NoSendAfterClose ==
    [][\A t \in Attempts :
          /\ closeCalls[t] > 0 => sendLog'[t] = sendLog[t]
          /\ \A i \in QueuedOps(t, "send"), j \in QueuedOps(t, "close") : i < j
          /\ CloseDeferred(t) =>
                /\ captured'[t] = captured[t]
                /\ Cardinality(QueuedOps(t, "send")') <= Cardinality(QueuedOps(t, "send"))
      ]_vars

C23_Witness ==
    \E t \in Attempts :
        /\ sendLog[t] = <<1, 2>> /\ closeCalls[t] = 1
        /\ session[t] = "Closed" /\ onaudioprocess[t]
        /\ sentIn = {"Open"}

\* The microphone recording of attempt a was started and an exit path has
\* run for it: stop() was called on its transcriber by the Stop button, by
\* the unmount cleanup or by the effect on a changed video id.
RecordingEnded(a) == kind[a] = "mic" /\ pc[a] = "started" /\ stopCalls[a] > 0

MicReleased(a) ==
    stream[a] = "stopped" /\ recorder[a] # "recording" /\ timer[a] # "running"

\* C24: when a microphone recording ends, by whichever exit path, its
\* microphone tracks are stopped, its MediaRecorder is stopped and its
\* duration timer is cleared.
C24_MicReleasedOnExit ==
    \A a \in Attempts : RecordingEnded(a) ~> MicReleased(a)

\* C26: the step that hands the recorded file of a stopped recording to
\* handleVideoSelect keeps the live transcript of the recording.
C26_TranscriptKeptForRecording ==
    [][\A a \in Attempts :
          (kind[a] = "mic" /\ mounted /\ ReaderOnLoad(a)) => liveText' = liveText
      ]_vars

\* Request k settles in the step.
Settles(k) ==
    /\ k \in 1..Len(requests)
    /\ requests[k].state = "pending" /\ requests'[k].state # "pending"

\* C25: when an auto-triggered request settles and the video it was made
\* for is no longer the one shown (another was selected or restored, or
\* the video was cleared), the analysis state and the history stay as they
\* are.
C25_LateResultDropped ==
    [][\A k \in 1..MaxRequests :
          (Settles(k) /\ requests[k].auto /\ videoId # requests[k].id) =>
              UNCHANGED <<analysis, history, stored>>
      ]_vars

\* C27: once every request that was started has settled, isLoading is
\* false.
C27_LoadingNotStuck == (requests # <<>> /\ Pending = {}) => ~analysis.isLoading

C27_Witness ==
    /\ Len(requests) = 2 /\ Pending = {}
    /\ requests[1].auto /\ requests[2].auto
    /\ requests[1].id # requests[2].id
    /\ requests[1].state = "resolved" /\ requests[2].state = "resolved"
    /\ analysis = [isLoading |-> FALSE, error |-> FALSE, result |-> 2]
    /\ Len(history) = 1

\* Newest first: the ids, numbered in the order of saving, go down.
NewestFirst(list) ==
    \A i, j \in 1..Len(list) : i < j => list[i].id > list[j].id

\* C28: after any sequence of saveToHistory, deleteHistoryItem and
\* clearHistory the history holds at most 20 items, newest first (a save
\* puts its item in front of what was there, cut at 20), and what is read
\* back from localStorage is the in-memory list, no key standing for [].
C28_HistoryCappedAndPersisted ==
    [][/\ Len(history') <= HistoryCap
       /\ NewestFirst(history')
       /\ Loaded' = history'
       /\ uuids' # uuids =>
             /\ history'[1].id = RandomUUID
             /\ \E n \in 0..Len(history) :
                   SubSeq(history', 2, Len(history')) = SubSeq(history, 1, n)
      ]_vars

C28_Witness ==
    /\ Len(history) = HistoryCap /\ uuids = 2
    /\ history[1].id = RandomUUID - 1
    /\ history[HistoryCap].id = -(HistoryCap - 2)
    /\ stored # <<>> /\ Loaded = history

\* The outcome of the latest handleUrlSubmit: the video was handed over
\* once and no error is shown, or an error is shown and no video was
\* handed over.
OneOutcome ==
    \/ selections = 1 /\ error = "null"
    \/ selections = 0 /\ error # "null"

\* C29: every handleUrlSubmit on a URL that passes the validation ends in
\* exactly one outcome, onVideoSelected called once or an error set, with
\* isProcessingUrl back to false; also when the download succeeds and
\* reading the downloaded blob fails.
C29_UrlSubmitSettles ==
    isProcessingUrl ~> (~isProcessingUrl /\ OneOutcome)

\* A field of the video is present: defined and not empty.
Present(x) == x # "undefined" /\ x # ""

\* The call failed: the input has no source, or generateContent threw, or
\* its response carries no text.
SummaryFailed ==
    \/ request = <<>>
    \/ response.thrown
    \/ ~Present(response.text)

\* C30: generateVideoSummary sends the inline media, without the search
\* tool, when base64Data and mimeType are both present; otherwise the
\* search-grounded prompt for the url when url is present; otherwise it
\* rejects and issues no request.  It resolves only with a non-empty text,
\* and every failure is a rejection with an Error.
C30_InputPriority ==
    promise.state # "none" =>
        /\ IF Present(video.base64Data) /\ Present(video.mimeType)
           THEN /\ Len(request) = 1
                /\ request[1].inlineData = <<video.mimeType, video.base64Data>>
                /\ request[1].tools = {}
           ELSE IF Present(video.url)
           THEN /\ Len(request) = 1
                /\ request[1].inlineData = <<>>
                /\ request[1].text[1] = "searchPrompt"
                /\ request[1].text[2] = video.url
                /\ request[1].tools = {"googleSearch"}
           ELSE /\ request = <<>>
                /\ promise.state = "rejected"
        /\ promise.state = "fulfilled" =>
              /\ Present(promise.value)
              /\ promise.value = response.text
              /\ ~response.thrown
        /\ promise.state # "pending" =>
              IF SummaryFailed
              THEN promise.state = "rejected" /\ promise.isError
              ELSE promise.state = "fulfilled"

\* A video with file data and a URL was summarised from the file data.
C30_Witness ==
    /\ promise.state = "fulfilled"
    /\ Present(video.base64Data) /\ Present(video.mimeType) /\ Present(video.url)
    /\ Len(request) = 1 /\ request[1].inlineData # <<>>
    /\ promise.value = "A summary"

====
